---- MODULE Spec2Model ----
(***************************************************************************)
(* Model of the sourcherrypick search controller:                          *)
(*   search_controller.py   run_until, run_experiment, main                *)
(*   docker_controller.py   DockerController (still_running, not_running,  *)
(*                          container_exit_code, run_container)            *)
(*   bayesian_optimization_engine.py   cost, optimize                      *)
(*                                                                         *)
(* Time is counted in ticks of a quarter of a second, so that the 0.5 s    *)
(* sleep of run_until is PollTicks = 2 ticks and instants between two      *)
(* polls exist.  The clock is read relative to the instant the current     *)
(* evaluation was entered: the code only ever uses differences of          *)
(* time.time() readings.                                                   *)
(*                                                                         *)
(* The docker daemon and the workload are the environment: the container   *)
(* may exit by itself at any instant while it runs (ContainerExits), every *)
(* call into the docker client may raise, and a status query may take up   *)
(* to MaxLatency ticks.                                                    *)
(*                                                                         *)
(* optimize hands the loop to the optimizer library (optimizer.maximize):  *)
(* it probes init_points + n_iter points one after the other, calling the  *)
(* black-box function run_experiment for each and registering the value it *)
(* returns (Propose, Register); optimizer.max is the registered point with *)
(* the largest target (BestIndex).                                         *)
(*                                                                         *)
(* The functions whose value depends on their arguments alone (parse_args  *)
(* with the bounds main builds from it, the conversions at the head of     *)
(* run_experiment, cost, the values run_experiment returns) are operators; *)
(* SpecFn applies them to inputs drawn from small sets and keeps the last  *)
(* application in the variable call.                                       *)
(***************************************************************************)
EXTENDS Integers, Sequences, FiniteSets, TLC

\* ---------------------------------------------------------------- bounds
MaxTime == 4            \* largest max_time tried, in ticks
MaxLatency == 1         \* longest status query, in ticks
MaxJitterSample == 0    \* jitter values 0..MaxJitterSample are tried, and JitterMax

\* ------------------------------------------------------ program constants
PollTicks == 2          \* time.sleep(0.5)
JitterMax == 1000       \* random.randint(0,1000)
PenaltyFactor == -2     \* (max_time + jitter) * -2
CpuPrice == 100         \* COSTS['CPU']['price']
CpuUnit == 1            \* COSTS['CPU']['unit']
RamPrice == 10          \* COSTS['RAM']['price']
RamUnit == 1024 * 1024  \* COSTS['RAM']['unit']
InitPointsMain == 3     \* initialization_points=3 in main
IterationsDefault == 5  \* default=5 of --iterations
NoiseSigma == 10        \* random.gauss(mu=0.0, sigma=10.0)
MinCpuDefault == 100    \* min(args.cpu_limit, 0.1), in millicores
MinRamDefault == 60 * 10^6          \* min(args.memory_limit, 60*10**6)
MemoryReserve == 100 * 1024 * 1024  \* available_memory - 100 * 1024**2
MaxTimeLimit == 3600    \* args.time_limit > 3600 is refused
MinIterations == 1      \* not 1 <= args.iterations <= 100
MaxIterations == 100

Second == 2 * PollTicks \* ticks in one second: the sleep is half a second

JitterSamples == (0..MaxJitterSample) \cup {JitterMax}

\* the cpu values the optimizer's proposals start from, in millicores
CpuChoices == {500, 2000}

ExitCodes == {0, 1}

\* noise samples get_noise may return, in percent
NoiseSamples == {-NoiseSigma, 0, NoiseSigma}

VARIABLES
    sess,        \* "optimizing" | "done" | "aborted"   (main / optimize)
    env,         \* what the environment may do in this run: the longest status
                 \* query (latCap), the points the optimizer proposes (cpus),
                 \* the values random.randint yields (jitters), the exit codes
                 \* of the workload (codes) and the samples get_noise yields
                 \* (noises)
    maxTime,     \* args.time_limit, in ticks
    initPoints,  \* initialization_points passed to optimize
    iterations,  \* iterations passed to optimize
    log,         \* optimizer.res: sequence of [cpu, ram, target]
    kinds,       \* per observation, how the run ended (diagnostic history)
    best,        \* index in log of optimizer.max as read by main (0 before)
    bestCost,    \* the cost main prints for optimizer.max
    warned,      \* main logged "No valid parameters found ..."
    pc,          \* position inside run_experiment / the optimizer loop
    cpu, ram,    \* the configuration under evaluation
    cstate,      \* "none" | "running" | "exited" | "removed"
    exitCode,    \* StatusCode of a workload that ended by itself (NoCode
                 \* otherwise: the code never reads the status code of a
                 \* container it killed or stopped)
    exitAt,      \* instant the workload ended by itself (Never while it has not)
    now,         \* the clock
    start,       \* start = time.time()
    sleepLeft,   \* ticks left of the current time.sleep(0.5)
    lastCond,    \* result of the last condition_function call of run_until
    inTime,      \* in_time
    loopEnd,     \* instant the poll loop of run_until ended (Never before)
    totalTime,   \* total_time
    outcome,     \* "none" | "ok" | "error" | "timeout"
    exc,         \* an exception raised inside the try block is pending
    retval,      \* value returned by run_experiment
    raisedBy,    \* the call whose exception leaves run_experiment ("none" if none)
    polls,       \* status polls issued by run_until in this evaluation
    kills,       \* container.kill() calls in this evaluation
    killFailed,  \* container.kill() raised docker.errors.APIError
    stops,       \* container.stop() calls in this evaluation
    removes,     \* container.remove() calls in this evaluation
    logsRead,    \* container.logs() calls in this evaluation
    launches,    \* containers created so far in the session
    existing,    \* ids of the containers that exist in the docker daemon
    call         \* the last application of a function to drawn inputs
                 \* (SpecFn): its name, its arguments and what it produced

evalVars == << cstate, exitCode, exitAt, now, start, sleepLeft, lastCond, inTime,
               loopEnd, totalTime, outcome, exc, retval, raisedBy,
               polls, kills, killFailed, stops, removes, logsRead >>
cfgVars == << env, maxTime, initPoints, iterations, call >>
vars == << sess, cfgVars, log, kinds, best, bestCost, warned, pc, cpu, ram, evalVars, launches, existing >>
\* ------------------------------------------------------------- helpers
Never == 0 - 1          \* "no such instant yet"
NoCode == -1            \* container_exit_code returns None while still running

\* int(x) of Python for the rational a / b with b > 0: truncation toward zero
TruncDiv(a, b) == IF a >= 0 THEN a \div b ELSE -((-a) \div b)

\* DockerController.still_running: container.status.upper() == 'RUNNING'
still_running(st) == st = "running"

\* DockerController.not_running
not_running(st) == ~still_running(st)

\* DockerController.container_exit_code: None while running, else the
\* StatusCode that container.wait() reports
container_exit_code(st, code) == IF still_running(st) THEN NoCode ELSE code

\* run_until, the loop test:
\*   while not condition_function(*args) and time.time() - start < timeout
LoopContinues(cond, elapsed, timeout) == ~cond /\ elapsed < timeout

\* run_until, the verdict after the loop:
\*   if time.time() - start > timeout: return False
\*   return True
RunUntilResult(elapsed, timeout) == ~(elapsed > timeout)

\* total_time = (max_time + random.randint(0,1000)) * -2, in ticks
Penalty(maxT, jitter) == (maxT + jitter * Second) * PenaltyFactor

PenaltyValues(maxT) == { Penalty(maxT, j) : j \in 0..JitterMax }

\* DockerController.container_exit_code: the calls it makes into the docker
\* client, one after the other: containers.get inside still_running, and for
\* a container that does not run containers.get and container.wait
ExitCodeQueries(st) == IF still_running(st) THEN 1 ELSE 3

\* faulty variant of ReturnValue: the sign guard is forgotten
ReturnValue_noSignGuard(total) == total * (-1)

\* the end of run_experiment:
\*   if total_time < 0: return total_time
\*   return total_time * -1
ReturnValue(total) == IF total < 0 THEN total ELSE total * (-1)

\* faulty variant of cost: the noise replaces the measured usage instead of
\* being added to it
cost_noiseOnly(cpu_used, ram_used, total_time, cpu_epsilon, ram_epsilon) ==
    IF total_time < 0
    THEN [inf |-> TRUE, val |-> 0]
    ELSE LET actual_cpu == TruncDiv(cpu_used * cpu_epsilon, 100 * 1000)
             actual_ram == TruncDiv(ram_used * ram_epsilon, 100)
             effective_cpu == actual_cpu \div CpuUnit
             effective_ram == TruncDiv(actual_ram, RamUnit)
             cpu_cost == effective_cpu * CpuPrice
             ram_cost == effective_ram * RamPrice
         IN  [inf |-> FALSE, val |-> (cpu_cost + ram_cost) * total_time]

\* BayesianOptimizationEngine.cost; cpu_used in millicores, ram_used in bytes,
\* total_time in ticks, the two noise samples in percent.  The result is
\* float('inf') (inf = TRUE) or a number (val).
cost(cpu_used, ram_used, total_time, cpu_epsilon, ram_epsilon) ==
    IF total_time < 0
    THEN [inf |-> TRUE, val |-> 0]
    ELSE LET actual_cpu == TruncDiv(cpu_used * (100 + cpu_epsilon), 100 * 1000)
             actual_ram == TruncDiv(ram_used * (100 + ram_epsilon), 100)
             effective_cpu == actual_cpu \div CpuUnit
             effective_ram == TruncDiv(actual_ram, RamUnit)
             cpu_cost == effective_cpu * CpuPrice
             ram_cost == effective_ram * RamPrice
         IN  [inf |-> FALSE, val |-> (cpu_cost + ram_cost) * total_time]

NoCost == [inf |-> FALSE, val |-> 0]

\* a <= b on the values cost returns
CostLeq(a, b) == b.inf \/ (~a.inf /\ a.val <= b.val)

\* faulty variant of optimize: initialization_points is passed for both
\* arguments
optimize_initializationTwice(initialization_points, n_iter) == [init_points |-> initialization_points, n_iter |-> initialization_points]

\* optimize, lines 86-89: the arguments it hands to optimizer.maximize
optimize(initialization_points, n_iter) == [init_points |-> initialization_points, n_iter |-> n_iter]

\* SearchLoop (spec.md 4.4): EXPLORING evaluates init_points points and
\* OPTIMIZING n_iter points, all distinct; this is the number of
\* evaluations maximize runs for these arguments
Budget(init_points, n_iter) == init_points + n_iter

\* the number of evaluations of a session: what maximize runs for the
\* arguments optimize hands it
Evaluations(initialization_points, n_iter) == Budget(optimize(initialization_points, n_iter).init_points, optimize(initialization_points, n_iter).n_iter)

\* optimizer.max: the first observation with the largest target
BestIndex(res) ==
    CHOOSE i \in 1..Len(res) :
        /\ \A j \in 1..Len(res) : res[j].target <= res[i].target
        /\ \A j \in 1..(i - 1) : res[j].target < res[i].target

\* faulty variant of OnTryException: no finally block, the exception leaves
\* run_experiment at once
OnTryException_noFinally == [pc |-> "raised", exc |-> TRUE]

\* where control goes when a call inside the try block raises: the finally
\* block runs with the exception pending
OnTryException == [pc |-> "fin_status", exc |-> TRUE]

\* faulty variant of OnKillApiError: the APIError is not caught
OnKillApiError_uncaught == [pc |-> "fin_status", exc |-> TRUE]

\* faulty variant of OnKillApiError: the handler also leaves the try block,
\* past the log read
OnKillApiError_skipLogs == [pc |-> "fin_status", exc |-> FALSE]

\* where control goes when container.kill() raises docker.errors.APIError:
\* the except clause logs it and execution continues after the if
OnKillApiError == [pc |-> "logs", exc |-> FALSE]

\* faulty variant of AfterFinally: the log read is repeated after the cleanup
AfterFinally_logsAgain(pending) == IF pending THEN "raised" ELSE "logs"

\* where control goes when the finally block is done: the pending exception
\* is raised again, or lines 284-286 return
AfterFinally(pending) == IF pending THEN "raised" ELSE "ret"

\* faulty variant of AfterRemove: the container is left in the daemon
AfterRemove_noRemove(ex, id) == ex

\* the daemon's containers after container.remove() succeeded
AfterRemove(ex, id) == ex \ {id}

\* Python's min of two numbers
Min(a, b) == IF b < a THEN b ELSE a

\* parse_args, lines 84-121: TRUE when the arguments are accepted, FALSE when
\* it ends the program with sys.exit(1).  cpu_limit in millicores, cpu_count
\* in cores, memory in bytes, time_limit in seconds; is_file is
\* os.path.isfile(args.sql_script); available_memory < 0 means the memory
\* could not be detected, and then the memory limit is not checked.
parse_args(cpu_limit, memory_limit, time_limit, is_file, n_iter, cpu_count, available_memory) ==
    /\ ~(cpu_limit < 0 \/ time_limit < 0 \/ memory_limit < 0)
    /\ is_file
    /\ ~(cpu_limit > cpu_count * 1000)
    /\ (available_memory < 0 \/ ~(memory_limit > available_memory - MemoryReserve))
    /\ ~(time_limit > MaxTimeLimit)
    /\ (MinIterations <= n_iter /\ n_iter <= MaxIterations)

\* main, lines 306-313: the bounds handed to BayesianOptimizationEngine;
\* cpu in millicores, ram in bytes
SearchBounds(cpu_limit, memory_limit) ==
    [min_cpu |-> Min(cpu_limit, MinCpuDefault), max_cpu |-> cpu_limit,
     min_ram |-> Min(memory_limit, MinRamDefault), max_ram |-> memory_limit]

\* the command line of the sessions: --cpu_limit 2.5 (in millicores) and
\* --memory_limit 1048576 (in bytes)
CpuLimitMain == 2500
MemoryLimitMain == RamUnit

\* main, lines 306-313, for that command line: cpu in [100, 2500] and
\* ram in [1048576, 1048576]
SessionBounds == SearchBounds(CpuLimitMain, MemoryLimitMain)

\* the cpu of the i-th point the optimizer proposes, starting from c: the
\* points of one session are pairwise distinct, a hundredth of a core
\* apart, and count the same whole cores as c
CpuPoint(c, i) == c + 10 * (i - 1)

\* the points the optimizer may propose for the i-th evaluation: inside the
\* bounds it was constructed with (pbounds)
Proposals(cpus, i) == {p \in [cpu : {CpuPoint(c, i) : c \in cpus}, ram : SessionBounds.min_ram..SessionBounds.max_ram] : SessionBounds.min_cpu <= p.cpu /\ p.cpu <= SessionBounds.max_cpu}

\* run_experiment, line 219: cpu = round(cpu, 2), on millicores; the result
\* is a whole number of hundredths of a core.  A value exactly half-way
\* between two hundredths (m % 10 = 5) is rounded by the binary value of
\* the float that stands for it, up for some and down for others: such
\* values are not drawn (CpuProposals).
RoundCpu(m) == ((m + 5) \div 10) * 10

\* run_experiment, line 220: ram = int(ram); the proposal is a float, here
\* in half bytes, the result is in bytes (proposals are not negative)
IntRam(h) == h \div 2

\* faulty variant of NoiseCalls: the noise is sampled before the test of
\* total_time
NoiseCalls_sampleFirst(total_time) == 2

\* cost, lines 58-62: the number of docker_monitor.get_noise() calls it makes
NoiseCalls(total_time) == IF total_time < 0 THEN 0 ELSE 2

\* no function has been applied
NoCall == [fn |-> "none"]
\* ------------------------------------------------------------- initial state
FreshEval ==
    /\ cstate = "none" /\ exitCode = NoCode /\ exitAt = Never
    /\ now = 0 /\ start = 0 /\ sleepLeft = 0 /\ lastCond = FALSE
    /\ inTime = FALSE /\ loopEnd = Never /\ totalTime = 0 /\ outcome = "none"
    /\ exc = FALSE /\ retval = 0 /\ raisedBy = "none"
    /\ polls = 0 /\ kills = 0 /\ killFailed = FALSE /\ stops = 0
    /\ removes = 0 /\ logsRead = 0

\* one evaluation, every max_time up to MaxTime, slow status queries
InputsEval ==
    /\ env = [latCap |-> MaxLatency, cpus |-> CpuChoices,
              jitters |-> JitterSamples, codes |-> ExitCodes,
              noises |-> NoiseSamples]
    /\ maxTime \in 0..MaxTime
    /\ initPoints = 1 /\ iterations = 0

\* the sessions main runs with --time_limit 0 and --iterations 1 (3 + 1
\* evaluations): every run is decided by its first poll, in time when the
\* status query took no time and timed out when it took one tick
InputsSession ==
    /\ env = [latCap |-> 1, cpus |-> {2000},
              jitters |-> {0, JitterMax}, codes |-> ExitCodes,
              noises |-> {0, NoiseSigma}]
    /\ maxTime = 0
    /\ initPoints = InitPointsMain /\ iterations = MinIterations

\* the sessions main runs with --time_limit 1 and --iterations 1, with an
\* optimizer that proposes either point, a workload that never fails, status
\* queries that take no time, and jitter and noise that are always 0
InputsSessionCpus ==
    /\ env = [latCap |-> 0, cpus |-> CpuChoices, jitters |-> {0}, codes |-> {0},
              noises |-> {0}]
    /\ maxTime = Second
    /\ initPoints = InitPointsMain /\ iterations = MinIterations

\* the session main runs by default (3 + 5 evaluations) with --time_limit 0,
\* with an optimizer that always proposes the same point, a workload that
\* never fails, status queries that take no time, and jitter and noise that
\* are always 0
InputsMain ==
    /\ env = [latCap |-> 0, cpus |-> {2000}, jitters |-> {0}, codes |-> {0},
              noises |-> {0}]
    /\ maxTime = 0
    /\ initPoints = InitPointsMain /\ iterations = IterationsDefault

Init ==
    /\ sess = "optimizing"
    /\ (InputsEval \/ InputsSession \/ InputsSessionCpus \/ InputsMain)
    /\ call = NoCall
    /\ log = << >> /\ kinds = << >> /\ best = 0
    /\ bestCost = NoCost /\ warned = FALSE
    /\ pc = "idle" /\ cpu = 0 /\ ram = 0
    /\ launches = 0 /\ existing = {}
    /\ FreshEval
\* ------------------------------------------------------------------ actions
ResetEval ==
    /\ cstate' = "none" /\ exitCode' = NoCode /\ exitAt' = Never
    /\ now' = 0 /\ start' = 0 /\ sleepLeft' = 0 /\ lastCond' = FALSE
    /\ inTime' = FALSE /\ loopEnd' = Never /\ totalTime' = 0 /\ outcome' = "none"
    /\ exc' = FALSE /\ retval' = 0 /\ raisedBy' = "none"
    /\ polls' = 0 /\ kills' = 0 /\ killFailed' = FALSE /\ stops' = 0
    /\ removes' = 0 /\ logsRead' = 0

\* positions of run_experiment at which the container exists
InEval == {"poll", "sleep", "kill", "exit_code", "logs",
           "fin_status", "fin_stop", "fin_remove"}

\* optimizer.maximize: the next point is probed, which calls
\* black_box_function(cpu, ram), that is run_experiment
Propose ==
    /\ sess = "optimizing" /\ pc = "idle"
    /\ Len(log) < Evaluations(initPoints, iterations)
    /\ \E p \in Proposals(env.cpus, Len(log) + 1) : cpu' = p.cpu /\ ram' = p.ram
    /\ pc' = "launch"
    /\ UNCHANGED << sess, cfgVars, log, kinds, best, bestCost, warned,
                    evalVars, launches, existing >>

\* run_experiment, lines 222-239: controller.run_container(...) outside the
\* try block, then start = time.time() and run_until's own start
RunContainer ==
    /\ pc = "launch"
    /\ \/ /\ launches' = launches + 1
          /\ existing' = existing \cup {launches + 1}
          /\ cstate' = "running"
          /\ now' = 0 /\ start' = 0
          /\ pc' = "poll"
          /\ UNCHANGED raisedBy
       \/ /\ raisedBy' = "launch"
          /\ pc' = "raised"
          /\ UNCHANGED << launches, existing, cstate, now, start >>
    /\ UNCHANGED << sess, cfgVars, log, kinds, best, bestCost, warned, cpu, ram,
                    exitCode, exitAt, sleepLeft, lastCond, inTime, loopEnd,
                    totalTime, outcome, exc, retval,
                    polls, kills, killFailed, stops, removes, logsRead >>

\* the workload ends by itself
ContainerExits ==
    /\ pc \in InEval /\ cstate = "running"
    /\ \E code \in env.codes : exitCode' = code
    /\ cstate' = "exited"
    /\ exitAt' = now
    /\ UNCHANGED << sess, cfgVars, log, kinds, best, bestCost, warned, pc, cpu, ram,
                    now, start, sleepLeft, lastCond, inTime, loopEnd, totalTime,
                    outcome, exc, retval, raisedBy,
                    polls, kills, killFailed, stops, removes, logsRead,
                    launches, existing >>

\* run_until, one evaluation of the while test and, when the loop ends, of
\* the verdict; controller.not_running is the condition function
Poll ==
    /\ pc = "poll"
    /\ polls' = polls + 1
    /\ \/ /\ raisedBy' = "poll"
          /\ pc' = OnTryException.pc /\ exc' = OnTryException.exc
          /\ UNCHANGED << now, sleepLeft, lastCond, inTime, loopEnd >>
       \/ \E lat \in 0..env.latCap :
            LET cond == not_running(cstate)
                t == now + lat
            IN  /\ now' = t
                /\ lastCond' = cond
                /\ IF LoopContinues(cond, t - start, maxTime)
                   THEN /\ pc' = "sleep"
                        /\ sleepLeft' = PollTicks
                        /\ UNCHANGED << inTime, loopEnd >>
                   ELSE /\ loopEnd' = t
                        /\ inTime' = RunUntilResult(t - start, maxTime)
                        /\ pc' = IF inTime' THEN "exit_code" ELSE "kill"
                        /\ UNCHANGED sleepLeft
                /\ UNCHANGED << exc, raisedBy >>
    /\ UNCHANGED << sess, cfgVars, log, kinds, best, bestCost, warned, cpu, ram,
                    cstate, exitCode, exitAt, start, totalTime, outcome, retval,
                    kills, killFailed, stops, removes, logsRead,
                    launches, existing >>

\* time.sleep(0.5), one tick of it
SleepTick ==
    /\ pc = "sleep"
    /\ now' = now + 1
    /\ sleepLeft' = sleepLeft - 1
    /\ pc' = IF sleepLeft' = 0 THEN "poll" ELSE "sleep"
    /\ UNCHANGED << sess, cfgVars, log, kinds, best, bestCost, warned, cpu, ram,
                    cstate, exitCode, exitAt, start, lastCond, inTime, loopEnd,
                    totalTime, outcome, exc, retval, raisedBy,
                    polls, kills, killFailed, stops, removes, logsRead,
                    launches, existing >>
\* run_experiment, lines 251-260: the run timed out; the penalty is drawn,
\* then container.kill() is tried and docker.errors.APIError is caught.
\* The daemon refuses to kill a container that is not running (APIError).
\* Any other exception of container.kill() is not caught by the except
\* clause: it leaves the try block like that of any other call, before
\* "Execution timed out" is logged.
Kill ==
    /\ pc = "kill"
    /\ \E j \in env.jitters : totalTime' = Penalty(maxTime, j)
    /\ kills' = kills + 1
    /\ \/ /\ still_running(cstate)
          /\ cstate' = "exited"
          /\ outcome' = "timeout"
          /\ pc' = "logs"
          /\ UNCHANGED << killFailed, exc, raisedBy >>
       \/ /\ killFailed' = TRUE
          /\ outcome' = "timeout"
          /\ pc' = OnKillApiError.pc /\ exc' = OnKillApiError.exc
          /\ raisedBy' = IF OnKillApiError.exc THEN "kill" ELSE raisedBy
          /\ UNCHANGED cstate
       \/ /\ raisedBy' = "kill"
          /\ pc' = OnTryException.pc /\ exc' = OnTryException.exc
          /\ UNCHANGED << cstate, killFailed, outcome >>
    /\ UNCHANGED << sess, cfgVars, log, kinds, best, bestCost, warned, cpu, ram,
                    exitCode, exitAt, now, start, sleepLeft, lastCond, inTime, loopEnd,
                    retval, polls, stops, removes, logsRead, launches, existing >>

\* run_experiment, lines 261-271: controller.container_exit_code, then the
\* elapsed time (exit code 0) or the penalty (any other code, None included).
\* The clock is read after all the queries of container_exit_code returned,
\* each of which takes up to env.latCap.
ExitCode ==
    /\ pc = "exit_code"
    /\ \/ /\ raisedBy' = "exit_code"
          /\ pc' = OnTryException.pc /\ exc' = OnTryException.exc
          /\ UNCHANGED << now, totalTime, outcome >>
       \/ \E lat \in 0..(ExitCodeQueries(cstate) * env.latCap) :
            LET exit_code == container_exit_code(cstate, exitCode)
                t == now + lat
            IN  /\ now' = t
                /\ IF exit_code = 0
                   THEN /\ totalTime' = t - start
                        /\ outcome' = "ok"
                   ELSE /\ \E j \in env.jitters : totalTime' = Penalty(maxTime, j)
                        /\ outcome' = "error"
                /\ pc' = "logs"
                /\ UNCHANGED << exc, raisedBy >>
    /\ UNCHANGED << sess, cfgVars, log, kinds, best, bestCost, warned, cpu, ram,
                    cstate, exitCode, exitAt, start, sleepLeft, lastCond, inTime,
                    loopEnd, retval, polls, kills, killFailed, stops, removes,
                    logsRead, launches, existing >>

\* run_experiment, lines 273-276: container.logs(timestamps=True), decoded
\* and printed.  The log retrieval raises when the call itself raises or
\* when the bytes it returned are not UTF-8 (logs.decode): either way the
\* call was made and the exception leaves the try block.
Logs ==
    /\ pc = "logs"
    /\ logsRead' = logsRead + 1
    /\ \/ /\ raisedBy' = "logs"
          /\ pc' = OnTryException.pc /\ exc' = OnTryException.exc
       \/ /\ pc' = "fin_status"
          /\ UNCHANGED << exc, raisedBy >>
    /\ UNCHANGED << sess, cfgVars, log, kinds, best, bestCost, warned, cpu, ram,
                    cstate, exitCode, exitAt, now, start, sleepLeft, lastCond,
                    inTime, loopEnd, totalTime, outcome, retval,
                    polls, kills, killFailed, stops, removes, launches, existing >>

\* finally, line 279: if controller.still_running(container.name)
FinStatus ==
    /\ pc = "fin_status"
    /\ \/ /\ raisedBy' = "fin_status"
          /\ pc' = "raised"
       \/ /\ pc' = IF still_running(cstate) THEN "fin_stop" ELSE "fin_remove"
          /\ UNCHANGED raisedBy
    /\ UNCHANGED << sess, cfgVars, log, kinds, best, bestCost, warned, cpu, ram,
                    cstate, exitCode, exitAt, now, start, sleepLeft, lastCond,
                    inTime, loopEnd, totalTime, outcome, exc, retval,
                    polls, kills, killFailed, stops, removes, logsRead,
                    launches, existing >>

\* finally, line 280: container.stop()
FinStop ==
    /\ pc = "fin_stop"
    /\ stops' = stops + 1
    /\ \/ /\ raisedBy' = "stop"
          /\ pc' = "raised"
          /\ UNCHANGED cstate
       \/ /\ cstate' = "exited"
          /\ pc' = "fin_remove"
          /\ UNCHANGED raisedBy
    /\ UNCHANGED << sess, cfgVars, log, kinds, best, bestCost, warned, cpu, ram,
                    exitCode, exitAt, now, start, sleepLeft, lastCond, inTime, loopEnd,
                    totalTime, outcome, exc, retval,
                    polls, kills, killFailed, removes, logsRead, launches, existing >>

\* finally, line 281: container.remove(), then the pending exception is
\* raised again or lines 284-286 return.  The daemon refuses to remove a
\* running container.
FinRemove ==
    /\ pc = "fin_remove"
    /\ removes' = removes + 1
    /\ \/ /\ raisedBy' = "remove"
          /\ pc' = "raised"
          /\ UNCHANGED << cstate, existing, retval >>
       \/ /\ ~still_running(cstate)
          /\ cstate' = "removed"
          /\ existing' = AfterRemove(existing, launches)
          /\ pc' = AfterFinally(exc)
          /\ retval' = IF exc THEN retval ELSE ReturnValue(totalTime)
          /\ UNCHANGED raisedBy
    /\ UNCHANGED << sess, cfgVars, log, kinds, best, bestCost, warned, cpu, ram,
                    exitCode, exitAt, now, start, sleepLeft, lastCond, inTime,
                    loopEnd, totalTime, outcome, exc,
                    polls, kills, killFailed, stops, logsRead, launches >>

\* optimizer.maximize: the value run_experiment returned is registered with
\* the point that was probed
Register ==
    /\ sess = "optimizing" /\ pc = "ret"
    /\ log' = Append(log, [cpu |-> cpu, ram |-> ram, target |-> retval])
    /\ kinds' = Append(kinds, [id |-> launches, kind |-> outcome])
    /\ pc' = "idle"
    /\ cpu' = 0 /\ ram' = 0
    /\ ResetEval
    /\ UNCHANGED << sess, cfgVars, best, bestCost, warned, launches, existing >>

\* an exception leaves run_experiment: neither optimizer.maximize nor main
\* catches it
Abort ==
    /\ sess = "optimizing" /\ pc = "raised"
    /\ sess' = "aborted"
    /\ UNCHANGED << cfgVars, log, kinds, best, bestCost, warned, pc, cpu, ram,
                    evalVars, launches, existing >>

\* main, lines 323-333: optimize returned; optimizer.max is reported with
\* its cost, and the warning is logged when max['target'] <= time_limit * -2
Finish ==
    /\ sess = "optimizing" /\ pc = "idle"
    /\ Len(log) = Evaluations(initPoints, iterations)
    /\ sess' = "done"
    /\ best' = BestIndex(log)
    /\ LET b == log[BestIndex(log)]
       IN  /\ \E e1 \in env.noises, e2 \in env.noises :
                 bestCost' = cost(b.cpu, b.ram, b.target * (-1), e1, e2)
           /\ warned' = (b.target <= maxTime * (-2))
    /\ UNCHANGED << cfgVars, log, kinds, pc, cpu, ram, evalVars, launches, existing >>

Next ==
    \/ Propose
    \/ RunContainer
    \/ ContainerExits
    \/ Poll
    \/ SleepTick
    \/ Kill
    \/ ExitCode
    \/ Logs
    \/ FinStatus
    \/ FinStop
    \/ FinRemove
    \/ Register
    \/ Abort
    \/ Finish

Spec == Init /\ [][Next]_vars
\* ---------------------------------------------- functions applied to inputs

\* the command lines tried: cpu_limit in millicores, memory_limit and the
\* available memory in bytes, time_limit in seconds
CpuLimitChoices == {-1, 0, 4, 57, MinCpuDefault, 1006, 2000, 2500}
CpuCounts == {2}
MemoryLimitChoices == {-1, 0, 1, MinRamDefault, 10^8, 2 * 10^8, 3 * 10^8}
AvailableMemoryChoices == {-1, 2 * 10^8 + MemoryReserve}
TimeLimitChoices == {-1, 0, 1, MaxTimeLimit, MaxTimeLimit + 1}
IterationChoices == {MinIterations - 1, MinIterations, IterationsDefault,
                     MaxIterations, MaxIterations + 1}

\* the points of [min_cpu, max_cpu] the optimizer may propose, in millicores
CpuProposals(b) == {m \in b.min_cpu..b.max_cpu : m % 10 # 5}

\* the points of [min_ram, max_ram] the optimizer may propose, in half bytes:
\* the ends, the middle, and half a byte inside each end
RamProposals(b) ==
    {h \in {2 * b.min_ram, 2 * b.min_ram + 1, b.min_ram + b.max_ram,
            2 * b.max_ram - 1, 2 * b.max_ram} :
        2 * b.min_ram <= h /\ h <= 2 * b.max_ram}

\* the arguments cost is applied to: cpu in millicores, ram in bytes, time
\* in ticks, noise in percent.  NoiseReach is the largest whole percentage
\* get_noise can return: random.gauss(0, 10) is 10 * cos(2 pi x) *
\* sqrt(-2 log(1 - y)) for two values x, y of random(), and y is at most
\* 1 - 2^-53, so no sample is beyond 10 * sqrt(2 * 53 * ln 2) = 85.7
CostCpus == {0, 500, 2000}
CostRams == {0, RamUnit + 1, 8 * RamUnit}
CostTimes == {-Second, -1, 0, 1, Second}
NoiseReach == 85
ReachNoises == NoiseSamples \cup {-NoiseReach, NoiseReach}

\* the times a successful run can measure under a limit: the poll that ends
\* run_until in time reads at most max_time, and the clock is read again
\* after the queries of container_exit_code, each taking up to MaxLatency
SuccessTimes(max_time) == 0..(max_time + ExitCodeQueries("exited") * MaxLatency)

sessionVars == << sess, env, maxTime, initPoints, iterations, log, kinds, best,
                  bestCost, warned, pc, cpu, ram, evalVars, launches, existing >>

\* main up to the construction of the engine: parse_args, then the bounds
ApplyMain ==
    /\ call = NoCall
    /\ \E cl \in CpuLimitChoices, ml \in MemoryLimitChoices,
          tl \in TimeLimitChoices, f \in BOOLEAN, it \in IterationChoices,
          cc \in CpuCounts, am \in AvailableMemoryChoices :
          LET ok == parse_args(cl, ml, tl, f, it, cc, am)
          IN  call' = [fn |-> "main", cpu_limit |-> cl, memory_limit |-> ml,
                       time_limit |-> tl, iterations |-> it,
                       accepted |-> ok,
                       bounds |-> IF ok THEN SearchBounds(cl, ml)
                                  ELSE SearchBounds(0, 0)]
    /\ UNCHANGED sessionVars

\* run_experiment, lines 218-228, for a point proposed inside the bounds of
\* an accepted command line: the configuration the container is launched
\* with; the optimizer registers the point it proposed
ApplyRunExperimentHead ==
    /\ call = NoCall
    /\ \E cl \in CpuLimitChoices, ml \in MemoryLimitChoices,
          cc \in CpuCounts, am \in AvailableMemoryChoices :
          /\ parse_args(cl, ml, 1, TRUE, IterationsDefault, cc, am)
          /\ LET b == SearchBounds(cl, ml)
             IN  \E c \in CpuProposals(b), r \in RamProposals(b) :
                    call' = [fn |-> "run_experiment", bounds |-> b,
                             cpu |-> c, ram |-> r,
                             launched |-> [cpu |-> RoundCpu(c), ram |-> IntRam(r)]]
    /\ UNCHANGED sessionVars

\* cost(cpu_used, ram_used, total_time) with the two samples get_noise
\* would return
ApplyCost ==
    /\ call = NoCall
    /\ \E c \in CostCpus, r \in CostRams, t \in CostTimes,
          e1 \in ReachNoises, e2 \in ReachNoises :
          call' = [fn |-> "cost", cpu_used |-> c, ram_used |-> r,
                   total_time |-> t, noise |-> << e1, e2 >>,
                   result |-> cost(c, r, t, e1, e2),
                   noise_calls |-> NoiseCalls(t)]
    /\ UNCHANGED sessionVars

\* run_experiment, lines 251-286, for an accepted time limit: the value it
\* returns for a failed or timed-out run with a given jitter, and for a
\* successful run that measured a given time
ApplyReturn ==
    /\ call = NoCall
    /\ \E tl \in TimeLimitChoices, j \in JitterSamples :
          /\ parse_args(0, 0, tl, TRUE, IterationsDefault, 1, -1)
          /\ \E elapsed \in SuccessTimes(tl * Second) :
                /\ call' = [fn |-> "return", max_time |-> tl * Second,
                            jitter |-> j, elapsed |-> elapsed,
                            failed |-> ReturnValue(Penalty(tl * Second, j)),
                            ok |-> ReturnValue(elapsed)]
    /\ UNCHANGED sessionVars

InitFn == Init /\ InputsMain

NextFn ==
    \/ ApplyMain
    \/ ApplyRunExperimentHead
    \/ ApplyCost
    \/ ApplyReturn

\* one function is applied, once, to one choice of inputs
SpecFn == InitFn /\ [][NextFn]_vars
\* ------------------------------------------------------------------ claims

\* the calls of the try block of run_experiment that may raise
TryCalls == {"poll", "exit_code", "logs"}

\* run_experiment has returned or raised
Exited == pc \in {"ret", "raised"}

\* C1: once run_container has returned a container, however run_experiment
\* exits (a value returned after success, failure, timeout or timeout with a
\* failed kill, or an exception raised by the status poll, the exit-code
\* retrieval or the log retrieval), the container is not running, it is
\* removed, and container.remove() was called exactly once.
C1_CleanupOnEveryExit ==
    (Exited /\ cstate # "none" /\ raisedBy \in {"none"} \cup TryCalls)
        => (~still_running(cstate) /\ cstate = "removed" /\ removes = 1)

\* C1 witness: the status poll raised and the finally block still stopped
\* and removed the running container
C1_Witness ==
    /\ pc = "raised" /\ raisedBy = "poll"
    /\ stops = 1 /\ removes = 1 /\ cstate = "removed"

\* C2 (as claimed): a container that never becomes inactive is classified as
\* timed out (run_until returns False, kill is issued, the penalty is
\* returned), and the poll loop ends between max_time and max_time plus one
\* poll interval (plus the time the last status query took).
C2_NeverInactiveTimesOut ==
    (pc = "ret" /\ exitAt = Never)
        => /\ inTime = FALSE /\ kills = 1 /\ outcome = "timeout"
           /\ retval \in PenaltyValues(maxTime)
           /\ maxTime <= loopEnd - start
           /\ loopEnd - start <= maxTime + PollTicks + env.latCap

\* C3 (as claimed): a container that exits with code 0 at d <= max_time is
\* reported as a success: no kill, -elapsed is returned, and
\* d <= elapsed <= d + one poll interval (plus the time the status query
\* of the last poll and the three queries of container_exit_code took).
C3_ExitZeroInBudgetSucceeds ==
    (pc = "ret" /\ exitAt # Never /\ exitCode = 0 /\ exitAt - start <= maxTime)
        => /\ outcome = "ok" /\ kills = 0
           /\ retval = totalTime * (-1)
           /\ exitAt - start <= totalTime
           /\ totalTime <= exitAt - start + PollTicks + 4 * env.latCap

\* C4: a run that timed out or exited with a nonzero code makes
\* run_experiment return the penalty and raise nothing (only a call into the
\* container runtime that raises makes it raise); the value is registered
\* with the probed point like any other, the session goes on, and it ends
\* only when init_points + iterations observations are registered.
C4_FailureDoesNotAbort ==
    /\ [](( Exited /\ outcome \in {"timeout", "error"}
            /\ raisedBy \notin TryCalls \cup {"fin_status", "stop", "remove"} )
              => (pc = "ret" /\ retval = totalTime
                  /\ retval \in PenaltyValues(maxTime)))
    /\ [][ (pc = "ret" /\ outcome \in {"timeout", "error"})
              => /\ log' = Append(log, [cpu |-> cpu, ram |-> ram, target |-> retval])
                 /\ sess' = "optimizing" /\ pc' = "idle" ]_vars
    /\ [][ sess' = "done" => Len(log) = initPoints + iterations ]_vars

\* C4 witness: the timed-out first run was registered with its penalty, the
\* second evaluation was launched and returned the penalty of a nonzero
\* exit code, and the session is still running
C4_Witness ==
    /\ sess = "optimizing" /\ Len(log) = 1 /\ kinds[1].kind = "timeout"
    /\ log[1].target \in PenaltyValues(maxTime)
    /\ launches = 2 /\ pc = "ret" /\ outcome = "error"

\* C5 (as claimed): when run_container raises, run_experiment returns a
\* value without any status poll and the session is not aborted.
C5_LaunchFailureAbsorbed ==
    (raisedBy = "launch") => (pc # "raised" /\ polls = 0 /\ sess # "aborted")

\* C6: when the run timed out and container.kill() failed (APIError), and no
\* other call into the runtime raises, run_experiment raises nothing: the
\* logs are read, the container is stopped if still running and removed,
\* the timeout penalty is returned and the session continues.
C6_KillFailureNotPropagated ==
    (Exited /\ killFailed /\ raisedBy \in {"none", "kill"})
        => /\ pc = "ret" /\ sess = "optimizing"
           /\ outcome = "timeout"
           /\ logsRead = 1 /\ removes = 1 /\ cstate = "removed"
           /\ retval = totalTime /\ retval \in PenaltyValues(maxTime)

\* C6 witness: kill failed on a container that kept running, the finally
\* block stopped and removed it, and the penalty was returned
C6_Witness ==
    /\ pc = "ret" /\ killFailed /\ exitAt = Never
    /\ stops = 1 /\ removes = 1 /\ logsRead = 1

\* C7: at most one container exists at any time, and a container is
\* launched only when no container exists and the value of every earlier
\* evaluation has been registered.
C7_Sequential ==
    /\ [](Cardinality(existing) <= 1)
    /\ [][ launches' = launches + 1
              => (existing = {} /\ Len(log) = launches /\ existing' = {launches'}) ]_vars

\* C7 witness: the second container runs after the first observation was
\* registered
C7_Witness ==
    launches = 2 /\ Len(log) = 1 /\ cstate = "running" /\ existing = {2}

ObsCost(i) ==
    cost(log[i].cpu, log[i].ram,
         IF kinds[i].kind = "ok" THEN log[i].target * (-1) ELSE log[i].target, 0, 0)

\* C9 (as claimed): the observation reported as best has the minimum cost
\* among all observations of the log.
C9_BestIsMinCost ==
    (sess = "done" /\ initPoints = InitPointsMain) => \A i \in 1..Len(log) : CostLeq(ObsCost(best), ObsCost(i))

\* C10 (as claimed): a timed-out run and a run that exited with a nonzero
\* code both yield a strictly negative value from the same set, which the
\* cost model maps to the cost sentinel.
C10_SameNegativeSentinel ==
    (pc = "ret" /\ outcome \in {"timeout", "error"})
        => /\ retval \in PenaltyValues(maxTime)
           /\ retval < 0
           /\ cost(cpu, ram, retval, 0, 0).inf

\* how an evaluation that did not succeed is recorded in kinds
Failed == {"timeout", "error"}

\* C11 (as claimed): within one session, no two failed or timed-out
\* evaluations return exactly the same penalty value to the optimizer.
C11_DistinctPenalties ==
    \A i \in 1..Len(log), j \in 1..Len(log) :
        (i < j /\ kinds[i].kind \in Failed /\ kinds[j].kind \in Failed)
            => log[i].target # log[j].target

\* C14: once container.remove() has removed the container of an evaluation,
\* no later call (status query, exit-code query, kill, stop, log read or a
\* second remove) is issued for it, neither by the rest of that evaluation
\* nor by a later one: wherever run_experiment is about to call into the
\* container, that container is the one launched last, it still exists in
\* the daemon and it has not been removed.
C14_NoUseAfterRemove ==
    /\ (pc \in InEval) => (launches \in existing /\ cstate # "removed")
    /\ (cstate = "removed") => (launches \notin existing /\ pc \in {"ret", "raised"})

\* a second evaluation is calling into its container after the container
\* of the first one was removed
C14_Witness ==
    /\ Len(log) = 1 /\ launches = 2 /\ pc = "logs"
    /\ 1 \notin existing /\ 2 \in existing

\* C15: in a run where no call raises, whatever its outcome (exit code 0,
\* nonzero exit code, timeout, timeout with a failed kill), the logs are read
\* exactly once: the read comes after the outcome is decided (and after the
\* kill attempt of a timed-out run) and before any stop or remove.
C15_LogsReadOnceInOrder ==
    /\ (pc = "logs") =>
          /\ logsRead = 0 /\ stops = 0 /\ removes = 0
          /\ outcome \in {"ok", "error", "timeout"}
          /\ (outcome = "timeout") => (kills = 1)
    /\ (~exc /\ raisedBy = "none" /\ pc \in {"fin_status", "fin_stop", "fin_remove", "ret"})
          => (logsRead = 1 /\ outcome # "none")
    /\ logsRead <= 1

\* a timed-out run whose kill failed has returned, with its logs read
C15_Witness ==
    pc = "ret" /\ outcome = "timeout" /\ killFailed /\ logsRead = 1 /\ removes = 1

\* C18 (as claimed): run_until returns True exactly when the last
\* evaluation of the condition returned true and False exactly when it
\* returned false; so the exit code is queried only for a container last
\* observed not running and kill is called only on one last observed running.
C18_VerdictMatchesLastCondition ==
    (pc \in {"exit_code", "kill"}) =>
        /\ inTime = lastCond
        /\ (pc = "exit_code") => lastCond
        /\ (pc = "kill") => ~lastCond

\* C20 (as claimed): at the end of a session of main (3 initialization
\* points, a time limit of whole seconds), the warning is logged exactly
\* when no evaluation of the session completed with exit code 0.
C20_WarningIffAllFailed ==
    (sess = "done" /\ initPoints = InitPointsMain /\ maxTime % Second = 0) =>
        (warned <=> \A i \in 1..Len(log) : kinds[i].kind # "ok")

\* C12 (as claimed): for a configuration proposed inside the bounds of the
\* session, the configuration the container is launched with (cpu after
\* round(cpu, 2), memory after int(ram)) lies inside the bounds and equals
\* the configuration the optimizer records for the observation.  Stated for
\* sessions whose bounds are positive.
C12_LaunchedWithinBoundsAsRecorded ==
    (call.fn = "run_experiment" /\ 0 < call.bounds.min_cpu
                                /\ 0 < call.bounds.min_ram) =>
        /\ call.bounds.min_cpu <= call.launched.cpu
        /\ call.launched.cpu <= call.bounds.max_cpu
        /\ call.bounds.min_ram <= call.launched.ram
        /\ call.launched.ram <= call.bounds.max_ram
        /\ call.launched.cpu = call.cpu
        /\ 2 * call.launched.ram = call.ram

\* C13 (as claimed): whenever parse_args accepts the command line, the
\* bounds main builds satisfy 0 < min <= max for cpu and for memory (the code
\* has no other check that would end the session before the first
\* evaluation).
C13_AcceptedBoundsValid ==
    (call.fn = "main" /\ call.accepted) =>
        /\ 0 < call.bounds.min_cpu /\ call.bounds.min_cpu <= call.bounds.max_cpu
        /\ 0 < call.bounds.min_ram /\ call.bounds.min_ram <= call.bounds.max_ram

\* C16: cost with total_time < 0 returns the +infinity sentinel whatever
\* cpu_used and ram_used are and calls get_noise zero times; with
\* total_time >= 0 it calls get_noise exactly twice.
C16_SentinelWithoutNoise ==
    (call.fn = "cost") =>
        /\ (call.total_time < 0) => (call.result.inf /\ call.noise_calls = 0)
        /\ (call.total_time >= 0) => (call.noise_calls = 2)

\* cost was applied to a negative time with nonzero resources
C16_Witness ==
    /\ call.fn = "cost" /\ call.total_time < 0
    /\ call.cpu_used > 0 /\ call.ram_used > 0
    /\ call.result.inf /\ call.noise_calls = 0

\* C17: for cpu_used >= 0, ram_used >= 0, total_time >= 0 and every pair of
\* noise samples get_noise can return, cost returns a finite value >= 0.
C17_CostFiniteNonNegative ==
    (call.fn = "cost" /\ call.cpu_used >= 0 /\ call.ram_used >= 0
                      /\ call.total_time >= 0) =>
        (~call.result.inf /\ call.result.val >= 0)

\* cost was applied to positive resources and a positive time with both
\* noise samples at the low end of what get_noise returns
C17_Witness ==
    /\ call.fn = "cost" /\ call.cpu_used > 0 /\ call.ram_used > RamUnit
    /\ call.total_time > 0
    /\ call.noise = << -NoiseReach, -NoiseReach >>
    /\ ~call.result.inf /\ call.result.val >= 0

\* C19 (as claimed): for every accepted time limit and every jitter, the
\* value returned for a failed or timed-out run is strictly less than the
\* value returned for any successful run.
C19_FailedBelowSuccessful ==
    (call.fn = "return") => (call.failed < call.ok)
====
